---- MODULE Spec2Model ----
(***************************************************************************)
(* Model of video_pillar_crop.py: per-column blackness of a grayscale      *)
(* frame, aggregation of the per-frame flags over the sampled frames,      *)
(* resolution of the left/right pillar widths and the crop rectangle.      *)
(*                                                                         *)
(* Three specifications share the variables:                               *)
(*   Spec         main() / analyze_frames() over a sequence of frames      *)
(*   SpecPillars  find_pillars() followed by to_norm() on a boolean vector *)
(*   SpecCol      column_blackness() on one image                          *)
(* Python sequences are 0-based; the sequences here are 1-based, so        *)
(* Python's black_cols[i] is black_cols[i+1] below.                        *)
(***************************************************************************)
EXTENDS Integers, Sequences, FiniteSets, TLC

VARIABLES
    frames,           \* analyze_frames: the decoded frames, in iteration order
    caller,           \* "main" or "analyze_frames" (called directly)
    threshold,        \* threshold argument
    frame_pct,        \* frame_pct argument, a rational <<num, den>>, den > 0
    pc,               \* position in the program
    n,                \* analyze_frames: n
    counts,           \* analyze_frames: counts (NoCounts models None)
    width,            \* analyze_frames: width  (Unbound before the first frame)
    height,           \* analyze_frames: height (Unbound before the first frame)
    col_means_store,  \* analyze_frames: col_means_store
    required,         \* analyze_frames: required (Unbound before line 73)
    result,           \* the dict analyze_frames returns (NoResult: none)
    err,              \* the exception raised, "none" if none
    pillars,          \* <<left, right>> returned by find_pillars
    crop,             \* the dict returned by to_norm
    exit_code,        \* main: process exit status (Unbound while running)
    black_cols_bool,  \* find_pillars: its argument
    img,              \* column_blackness: its argument
    colres            \* column_blackness: its return value

vars == <<frames, caller, threshold, frame_pct, pc, n, counts, width, height,
          col_means_store, required, result, err, pillars, crop, exit_code,
          black_cols_bool, img, colres>>

-----------------------------------------------------------------------------
(* Bounds of the model *)

MaxW == 2
MaxFrames == 2
MaxCols == 6
MaxImgW == 2
MaxImgH == 2

\* default of the threshold parameter
DefaultThreshold == 16

\* pixel values (uint8) used in the frames
PixelVals == {0, 32}

\* frame heights used in the pipeline specification
Heights == {1, 2}

\* thresholds used for column_blackness alone
Thresholds == {0, 16, 32}

\* frame_pct values: -1/2, 0, 1/2, 1, 3/2
Pcts == {<<-1, 2>>, <<0, 1>>, <<1, 2>>, <<1, 1>>, <<3, 2>>}

-----------------------------------------------------------------------------
(* Values standing for Python's None / unbound names *)

Unbound == -1
NoCounts == <<-1>>
NoPillars == <<-1, -1>>
NoResult == [n_frames |-> -1, width |-> -1, height |-> -1, counts |-> <<>>,
             black_cols |-> <<>>, col_means |-> <<>>]
NoCrop == [x |-> -1, y |-> -1, w |-> -1, h |-> -1,
           nx |-> -1, ny |-> -1, nw |-> -1, nh |-> -1]
NaN == [num |-> 0, den |-> 0]
NoImg == [width |-> 0, height |-> 0, rows |-> <<>>]
NoColRes == [bw |-> <<>>, means |-> <<>>]

-----------------------------------------------------------------------------
(* Images: arr = np.array(img) has shape (height, width); rows[r][c] *)

Images(W, H) ==
    {[width |-> W, height |-> H, rows |-> r] : r \in [1..H -> [1..W -> PixelVals]]}

\* every image of width 0..MaxImgW and height 0..MaxImgH
AllImages == UNION {Images(W, H) : W \in 0..MaxImgW, H \in 0..MaxImgH}

\* frames of the pipeline: one-row frames with any pixels, and two-row frames
\* whose last row is bright, so that a column is dark/bright (mean 16 / 32)
PipelineFrames ==
    UNION {{f \in Images(W, H) : \A r \in 2..H : \A c \in 1..W : f.rows[r][c] = 32} :
           W \in 1..MaxW, H \in Heights}

RECURSIVE SeqsUpTo(_, _)
SeqsUpTo(S, k) ==
    IF k = 0 THEN {<<>>}
    ELSE LET shorter == SeqsUpTo(S, k - 1)
         IN  shorter \cup {Append(s, e) : s \in {t \in shorter : Len(t) = k - 1}, e \in S}

-----------------------------------------------------------------------------
(* column_blackness *)

RECURSIVE ColSum(_, _, _)
ColSum(rows, c, r) == IF r = 0 THEN 0 ELSE rows[r][c] + ColSum(rows, c, r - 1)

\* arr.mean(axis=0): the exact mean sum/height of every column, nan when the
\* image has no rows
ColumnMeans(image) ==
    [c \in 1..image.width |->
        IF image.height = 0 THEN NaN
        ELSE [num |-> ColSum(image.rows, c, image.height), den |-> image.height]]

\* mean <= threshold on floats; any comparison with nan is False
MeanLeq(mean, t) == mean.den # 0 /\ mean.num <= t * mean.den

MeanLt(mean, t) == mean.den # 0 /\ mean.num < t * mean.den

column_blackness_strict(image, t) ==
    LET means == ColumnMeans(image)
    IN  [bw |-> [c \in 1..image.width |-> MeanLt(means[c], t)], means |-> means]

column_blackness(image, t) ==
    LET means == ColumnMeans(image)
    IN  [bw |-> [c \in 1..image.width |-> MeanLeq(means[c], t)], means |-> means]

-----------------------------------------------------------------------------
(* analyze_frames *)

\* math.ceil of the rational num/den, den > 0
Ceil(num, den) == -((-num) \div den)

\* bw.astype(int)
AsInt(bw) == [c \in 1..Len(bw) |-> IF bw[c] THEN 1 ELSE 0]

SizesVary(image, w, h) == image.width # w \/ image.height # h

\* img.width != width (h is the recorded height, which the code does not compare)
WidthsVary(image, w, h) == image.width # w

RequiredFloor(pct, k) == (pct[1] * k) \div pct[2]

\* math.ceil(frame_pct * n)
Required(pct, k) == Ceil(pct[1] * k, pct[2])

BlackColsStrict(cnt, req) == [c \in 1..Len(cnt) |-> cnt[c] > req]

\* counts >= required
BlackCols(cnt, req) == [c \in 1..Len(cnt) |-> cnt[c] >= req]

-----------------------------------------------------------------------------
(* find_pillars *)

RECURSIVE ScanLeft(_, _)
ScanLeft(b, left) ==
    IF left < Len(b) /\ b[left + 1] THEN ScanLeft(b, left + 1) ELSE left

RECURSIVE ScanRight(_, _)
ScanRight(b, right) ==
    IF right < Len(b) /\ b[Len(b) - right] THEN ScanRight(b, right + 1) ELSE right

Min(a, b) == IF a <= b THEN a ELSE b
Max(a, b) == IF a >= b THEN a ELSE b

find_pillars_nocap(b) == <<ScanLeft(b, 0), ScanRight(b, 0)>>

find_pillars_count(b) ==
    LET blacks == Cardinality({c \in 1..Len(b) : b[c]})
    IN  <<Min(blacks, Len(b) \div 2), Min(ScanRight(b, 0), Len(b) \div 2)>>

find_pillars(b) ==
    LET W == Len(b)
    IN  <<Min(ScanLeft(b, 0), W \div 2), Min(ScanRight(b, 0), W \div 2)>>

-----------------------------------------------------------------------------
(* to_norm *)

\* round(a / b, 6) in millionths, a >= 0, b > 0 (ties to even; no tie occurs
\* for b < 2000000)
Round6(a, b) ==
    LET q == (a * 1000000) \div b
        r == (a * 1000000) % b
    IN  IF 2 * r > b \/ (2 * r = b /\ q % 2 = 1) THEN q + 1 ELSE q

\* the dict to_norm builds; the divisions raise ZeroDivisionError when W or H
\* is 0, and then nothing is returned
ToNormDict(x, w, W, H) ==
    IF W = 0 \/ H = 0 THEN NoCrop
    ELSE [x |-> x, y |-> 0, w |-> w, h |-> H,
          nx |-> Round6(x, W), ny |-> Round6(0, H),
          nw |-> Round6(w, W), nh |-> Round6(H, H)]

\* w = max(0, W - left - right)
CropWidth(left, right, W) == Max(0, W - left - right)

to_norm_noright(left, right, W, H) == ToNormDict(left, Max(0, W - left), W, H)

to_norm_x0(left, right, W, H) == ToNormDict(0, CropWidth(left, right, W), W, H)

to_norm(left, right, W, H) == ToNormDict(left, CropWidth(left, right, W), W, H)

-----------------------------------------------------------------------------
(* Spec: main() and analyze_frames() *)

Init ==
    /\ frames \in SeqsUpTo(PipelineFrames, MaxFrames)
    /\ caller \in {"main", "analyze_frames"}
    /\ threshold = DefaultThreshold
    /\ frame_pct \in Pcts
    /\ pc = IF caller = "main" THEN "main" ELSE "loop"
    /\ n = 0
    /\ counts = NoCounts
    /\ width = Unbound
    /\ height = Unbound
    /\ col_means_store = <<>>
    /\ required = Unbound
    /\ result = NoResult
    /\ err = "none"
    /\ pillars = NoPillars
    /\ crop = NoCrop
    /\ exit_code = Unbound
    /\ black_cols_bool = <<>>
    /\ img = NoImg
    /\ colres = NoColRes

MainNoFramesGeneric ==
    /\ pc = "main"
    /\ Len(frames) = 0
    /\ exit_code' = 5
    /\ pc' = "exited"
    /\ UNCHANGED <<frames, caller, threshold, frame_pct, n, counts, width, height,
                   col_means_store, required, result, err, pillars, crop,
                   black_cols_bool, img, colres>>

\* main: no frames extracted, sys.exit(3) (SystemExit is not an Exception, so
\* the except clauses do not catch it)
MainNoFrames ==
    /\ pc = "main"
    /\ Len(frames) = 0
    /\ exit_code' = 3
    /\ pc' = "exited"
    /\ UNCHANGED <<frames, caller, threshold, frame_pct, n, counts, width, height,
                   col_means_store, required, result, err, pillars, crop,
                   black_cols_bool, img, colres>>

\* main: the call of analyze_frames
MainCallAnalyze ==
    /\ pc = "main"
    /\ Len(frames) # 0
    /\ pc' = "loop"
    /\ UNCHANGED <<frames, caller, threshold, frame_pct, n, counts, width, height,
                   col_means_store, required, result, err, pillars, crop, exit_code,
                   black_cols_bool, img, colres>>

\* analyze_frames: one iteration of the loop over frames
AnalyzeFrame ==
    /\ pc = "loop"
    /\ n < Len(frames)
    /\ LET image == frames[n + 1]
           cb == column_blackness(image, threshold)
       IN  /\ col_means_store' = Append(col_means_store, cb.means)
           /\ IF counts = NoCounts
              THEN /\ counts' = AsInt(cb.bw)
                   /\ width' = image.width
                   /\ height' = image.height
                   /\ n' = n + 1
                   /\ UNCHANGED <<pc, err>>
              ELSE IF WidthsVary(image, width, height)
              THEN /\ err' = "RuntimeError"
                   /\ pc' = "raised"
                   /\ UNCHANGED <<counts, width, height, n>>
              ELSE /\ counts' = [c \in 1..Len(counts) |-> counts[c] + AsInt(cb.bw)[c]]
                   /\ n' = n + 1
                   /\ UNCHANGED <<width, height, pc, err>>
    /\ UNCHANGED <<frames, caller, threshold, frame_pct, required, result, pillars,
                   crop, exit_code, black_cols_bool, img, colres>>

\* analyze_frames: after the loop; with no frame counts is None and the
\* comparison counts >= required raises TypeError
AnalyzeReturn ==
    /\ pc = "loop"
    /\ n = Len(frames)
    /\ required' = Required(frame_pct, n)
    /\ IF counts = NoCounts
       THEN /\ err' = "TypeError"
            /\ pc' = "raised"
            /\ UNCHANGED result
       ELSE /\ result' = [n_frames |-> n, width |-> width, height |-> height,
                          counts |-> counts,
                          black_cols |-> BlackCols(counts, required'),
                          col_means |-> col_means_store]
            /\ pc' = "returned"
            /\ UNCHANGED err
    /\ UNCHANGED <<frames, caller, threshold, frame_pct, n, counts, width, height,
                   col_means_store, pillars, crop, exit_code, black_cols_bool, img,
                   colres>>

\* main: find_pillars, to_norm, output, normal exit
MainCrop ==
    /\ pc = "returned"
    /\ caller = "main"
    /\ pillars' = find_pillars(result.black_cols)
    /\ crop' = to_norm(pillars'[1], pillars'[2], result.width, result.height)
    /\ exit_code' = 0
    /\ pc' = "exited"
    /\ UNCHANGED <<frames, caller, threshold, frame_pct, n, counts, width, height,
                   col_means_store, required, result, err, black_cols_bool, img,
                   colres>>

\* main: except Exception, sys.exit(5)
MainExcept ==
    /\ pc = "raised"
    /\ caller = "main"
    /\ exit_code' = 5
    /\ pc' = "exited"
    /\ UNCHANGED <<frames, caller, threshold, frame_pct, n, counts, width, height,
                   col_means_store, required, result, err, pillars, crop,
                   black_cols_bool, img, colres>>

Next ==
    \/ MainNoFrames
    \/ MainCallAnalyze
    \/ AnalyzeFrame
    \/ AnalyzeReturn
    \/ MainCrop
    \/ MainExcept

Spec == Init /\ [][Next]_vars

-----------------------------------------------------------------------------
(* SpecPillars: find_pillars then to_norm on any boolean vector *)

InitPillars ==
    /\ black_cols_bool \in SeqsUpTo(BOOLEAN, MaxCols)
    /\ width = Len(black_cols_bool)
    /\ height \in 0..MaxImgH
    /\ pc = "vector"
    /\ frames = <<>>
    /\ caller = "none"
    /\ threshold = DefaultThreshold
    /\ frame_pct = <<1, 1>>
    /\ n = 0
    /\ counts = NoCounts
    /\ col_means_store = <<>>
    /\ required = Unbound
    /\ result = NoResult
    /\ err = "none"
    /\ pillars = NoPillars
    /\ crop = NoCrop
    /\ exit_code = Unbound
    /\ img = NoImg
    /\ colres = NoColRes

FindPillars ==
    /\ pc = "vector"
    /\ pillars' = find_pillars(black_cols_bool)
    /\ pc' = "resolved"
    /\ UNCHANGED <<frames, caller, threshold, frame_pct, n, counts, width, height,
                   col_means_store, required, result, err, crop, exit_code,
                   black_cols_bool, img, colres>>

\* to_norm raises ZeroDivisionError at x / W or y / H
ToNorm ==
    /\ pc = "resolved"
    /\ IF width = 0 \/ height = 0
       THEN /\ err' = "ZeroDivisionError"
            /\ pc' = "raised"
            /\ UNCHANGED crop
       ELSE /\ crop' = to_norm(pillars[1], pillars[2], width, height)
            /\ pc' = "cropped"
            /\ UNCHANGED err
    /\ UNCHANGED <<frames, caller, threshold, frame_pct, n, counts, width, height,
                   col_means_store, required, result, pillars, exit_code,
                   black_cols_bool, img, colres>>

NextPillars ==
    \/ FindPillars
    \/ ToNorm

SpecPillars == InitPillars /\ [][NextPillars]_vars

-----------------------------------------------------------------------------
(* SpecCol: column_blackness on any image, zero-sized ones included *)

InitCol ==
    /\ img \in AllImages
    /\ threshold \in Thresholds
    /\ pc = "image"
    /\ colres = NoColRes
    /\ frames = <<>>
    /\ caller = "none"
    /\ frame_pct = <<1, 1>>
    /\ n = 0
    /\ counts = NoCounts
    /\ width = Unbound
    /\ height = Unbound
    /\ col_means_store = <<>>
    /\ required = Unbound
    /\ result = NoResult
    /\ err = "none"
    /\ pillars = NoPillars
    /\ crop = NoCrop
    /\ exit_code = Unbound
    /\ black_cols_bool = <<>>

ColumnBlackness ==
    /\ pc = "image"
    /\ colres' = column_blackness(img, threshold)
    /\ pc' = "flagged"
    /\ UNCHANGED <<frames, caller, threshold, frame_pct, n, counts, width, height,
                   col_means_store, required, result, err, pillars, crop, exit_code,
                   black_cols_bool, img>>

NextCol == ColumnBlackness

SpecCol == InitCol /\ [][NextCol]_vars

-----------------------------------------------------------------------------
(* Helpers of the properties, stated without the scans of find_pillars *)

\* length of the maximal all-black prefix / suffix of b
PrefixLen(b) ==
    CHOOSE k \in 0..Len(b) :
        (\A j \in 1..k : b[j]) /\ (k = Len(b) \/ ~b[k + 1])

SuffixLen(b) ==
    CHOOSE k \in 0..Len(b) :
        (\A j \in (Len(b) - k + 1)..Len(b) : b[j]) /\ (k = Len(b) \/ ~b[Len(b) - k])

\* column i is black and its black run touches neither edge
InteriorRun(b, i) ==
    /\ b[i]
    /\ \E j \in 1..(i - 1) : ~b[j]
    /\ \E j \in (i + 1)..Len(b) : ~b[j]

Flip(b, i) == [b EXCEPT ![i] = ~@]

\* column c of frame f has mean brightness <= t
DarkColumn(f, c, t) == ColSum(f.rows, c, f.height) <= t * f.height

\* number of the first k frames whose column c is dark
DarkFrames(c, k) == Cardinality({j \in 1..k : DarkColumn(frames[j], c, threshold)})

\* r is the least integer >= pct * k
IsCeilOf(r, pct, k) == r * pct[2] >= pct[1] * k /\ (r - 1) * pct[2] < pct[1] * k

Returned == result # NoResult

SameWidths == \A j \in 1..Len(frames) : frames[j].width = frames[1].width

\* index of the first frame whose width differs from the first frame's
FirstMismatch ==
    CHOOSE k \in 2..Len(frames) :
        /\ frames[k].width # frames[1].width
        /\ \A j \in 1..(k - 1) : frames[j].width = frames[1].width

-----------------------------------------------------------------------------
(* Properties *)

\* C1: for every boolean vector of width W >= 0, find_pillars returns widths
\* in 0..floor(W/2), so left + right <= W, and the crop width max(0, W - left -
\* right) of to_norm is W - left - right >= 0: the floor 0 never decides it.
C1_CapInvariant ==
    pc \in {"resolved", "cropped", "raised"} =>
        LET W == Len(black_cols_bool)
            l == pillars[1]
            r == pillars[2]
        IN  /\ 0 <= l /\ l <= W \div 2
            /\ 0 <= r /\ r <= W \div 2
            /\ l + r <= W
            /\ CropWidth(l, r, W) = W - l - r
            /\ W - l - r >= 0
            /\ pc = "cropped" => crop.w = W - l - r /\ crop.w >= 0

C1_Witness ==
    /\ pc = "cropped"
    /\ Len(black_cols_bool) = 5
    /\ \A c \in 1..5 : black_cols_bool[c]
    /\ pillars = <<2, 2>>
    /\ crop.w = 1

\* C2: find_pillars returns the lengths of the all-black prefix and suffix,
\* each capped at floor(W/2); flipping a column of a black run that touches
\* neither edge (to non-black, or back to black) changes neither width.
C2_EdgeAnchored ==
    pc \in {"resolved", "cropped", "raised"} =>
        LET b == black_cols_bool
            W == Len(b)
        IN  /\ pillars = <<Min(PrefixLen(b), W \div 2), Min(SuffixLen(b), W \div 2)>>
            /\ \A i \in 1..W :
                   (InteriorRun(b, i) \/ InteriorRun(Flip(b, i), i))
                       => find_pillars(Flip(b, i)) = pillars

C2_Witness ==
    /\ pc = "resolved"
    /\ black_cols_bool = <<TRUE, FALSE, TRUE, TRUE, FALSE, TRUE>>
    /\ InteriorRun(black_cols_bool, 3)
    /\ pillars = <<1, 1>>

AllDark == \A j \in 1..Len(frames) : \A c \in 1..frames[j].width :
               DarkColumn(frames[j], c, threshold)

PctInUnit == frame_pct[1] > 0 /\ frame_pct[1] <= frame_pct[2]

\* C4: with N >= 1 frames of one width W whose columns are all dark and
\* frame_pct in (0,1], every final flag is true, find_pillars returns
\* (floor(W/2), floor(W/2)) and the crop has x = floor(W/2) and width
\* W - 2*floor(W/2), which is 0 or 1 and never negative.
C4_AllBlack ==
    (Len(frames) >= 1 /\ SameWidths /\ AllDark /\ PctInUnit) =>
        LET W == frames[1].width
        IN  /\ pc # "raised"
            /\ Returned => \A c \in 1..W : result.black_cols[c]
            /\ pc = "exited" =>
                   /\ exit_code = 0
                   /\ pillars = <<W \div 2, W \div 2>>
                   /\ crop.x = W \div 2
                   /\ crop.w = W - 2 * (W \div 2)
                   /\ crop.w = (IF W % 2 = 0 THEN 0 ELSE 1)

C4_Witness ==
    /\ pc = "exited"
    /\ Len(frames) = 2
    /\ AllDark
    /\ PctInUnit
    /\ frames[1].width = 2
    /\ frames[1].height = 2
    /\ pillars = <<1, 1>>
    /\ crop.w = 0

C6_HeightsMayDiffer ==
    /\ pc = "returned"
    /\ Len(frames) = 2
    /\ frames[1].width = frames[2].width
    /\ frames[1].height # frames[2].height

\* C7: column_blackness fails with InvalidFrameError for a frame of zero
\* width or zero height: it never returns flags and means for such a frame.
C7_ZeroSizeRejected ==
    pc = "flagged" => img.width # 0 /\ img.height # 0

\* C8 as stated: frame_pct <= 0 gives required = 0 and every column black;
\* frame_pct > 1 gives required > N and no column black.
C8_RequiredZero ==
    Returned =>
        /\ frame_pct[1] <= 0 =>
               required = 0 /\ \A c \in 1..Len(result.counts) : result.black_cols[c]
        /\ frame_pct[1] > frame_pct[2] =>
               /\ required > result.n_frames
               /\ \A c \in 1..Len(result.counts) : ~result.black_cols[c]

\* C8 amended: frame_pct is not rejected; frame_pct <= 0 gives required =
\* ceil(frame_pct * N) <= 0 (negative once frame_pct * N <= -1) and every
\* column black; frame_pct > 1 gives required > N and no column black.
C8_OutOfRangePct ==
    /\ (Len(frames) >= 1 /\ SameWidths) => err = "none"
    /\ Returned =>
           /\ IsCeilOf(required, frame_pct, result.n_frames)
           /\ frame_pct[1] <= 0 =>
                  /\ required <= 0
                  /\ \A c \in 1..Len(result.counts) : result.black_cols[c]
           /\ frame_pct[1] > frame_pct[2] =>
                  /\ required > result.n_frames
                  /\ \A c \in 1..Len(result.counts) : ~result.black_cols[c]

C8_Witness ==
    /\ pc = "returned"
    /\ frame_pct = <<-1, 2>>
    /\ result.n_frames = 2
    /\ required = -1
    /\ result.counts = <<0, 2>>
    /\ result.black_cols = <<TRUE, TRUE>>

\* C9: after k frames have been processed, counts[i] is the number of those
\* frames whose column i has mean <= threshold, so 0 <= counts[i] <= k; the
\* result has n_frames = N, the number of frames supplied.
C9_CountsInvariant ==
    /\ n >= 1 =>
           /\ Len(counts) = frames[1].width
           /\ \A c \in 1..Len(counts) :
                  /\ counts[c] = DarkFrames(c, n)
                  /\ 0 <= counts[c] /\ counts[c] <= n
    /\ n = 0 => counts = NoCounts
    /\ Returned =>
           /\ result.n_frames = Len(frames)
           /\ result.counts = counts
           /\ \A c \in 1..Len(result.counts) :
                  0 <= result.counts[c] /\ result.counts[c] <= Len(frames)

C9_Witness ==
    /\ pc = "loop"
    /\ n = 2
    /\ frames[1].height = 2
    /\ frames[1].rows[1] = <<0, 32>>
    /\ frames[2].height = 1
    /\ frames[2].rows[1] = <<0, 0>>
    /\ counts = <<2, 1>>

\* C10: every column outside the crop [x, x + w) is black, so no non-black
\* column is discarded; when neither width was reduced by the cap and w > 0,
\* the first and the last column of the crop are non-black.
C10_CropKeepsContent ==
    pc = "cropped" =>
        LET b == black_cols_bool
            W == Len(b)
        IN  /\ crop.x = pillars[1]
            /\ crop.w = W - pillars[1] - pillars[2]
            /\ \A c \in 1..W :
                   (c - 1 < crop.x \/ c - 1 >= crop.x + crop.w) => b[c]
            /\ (PrefixLen(b) <= W \div 2 /\ SuffixLen(b) <= W \div 2 /\ crop.w > 0)
                   => ~b[crop.x + 1] /\ ~b[crop.x + crop.w]

C10_Witness ==
    /\ pc = "cropped"
    /\ black_cols_bool = <<TRUE, TRUE, FALSE, TRUE, FALSE, TRUE>>
    /\ crop.x = 2
    /\ crop.w = 3

====
